---- MODULE Spec2Model ----
(***************************************************************************)
(* Model of src/plugin-hooks/useSortBy.js (react-table): the sortBy        *)
(* reducer run by toggleSortBy and the row ordering computed by the        *)
(* sortedRows memo (sortData).                                             *)
(*                                                                         *)
(* JavaScript values that may be undefined are modelled as the strings     *)
(* "true", "false", "undefined" and "null"; Truthy and Not are the         *)
(* language's truthiness test and its ! operator.                          *)
(***************************************************************************)
EXTENDS Integers, Sequences, FiniteSets, TLC

\* Number of column definitions of the table (columns have ids 1..NumCols).
NumCols == 2

\* Number of row objects of the row forest (rows are the objects 1..MaxRows).
MaxRows == 3

ColumnIds == 1..NumCols

RowIds == 1..MaxRows

\* the columns the rows are ordered by, and the cell values of a row
SortCols == {1, 2}

CellValues == {0, 1}

\* the sets of columns that are sortInverted in the tables explored
InvertedColumns == {{}, {2}}

\* JavaScript values -------------------------------------------------------

JSBool == {"true", "false"}

\* values a column's optional sortDescFirst can hold
MaybeBool == {"true", "false", "undefined"}

\* values of the desc argument of toggleSortBy
DescArgs == {"true", "false", "undefined", "null"}

Truthy(v) == v = "true"

Not(v) == IF Truthy(v) THEN "false" ELSE "true"

VARIABLES
    sortBy,             \* state.sortBy: sequence of [id, desc]
    sortDescFirst,      \* column.sortDescFirst, by column id
    disableMultiSort,   \* instance.disableMultiSort
    disableSortRemove,  \* instance.disableSortRemove
    disableMultiRemove, \* instance.disableMultiRemove
    old,                \* state.sortBy as the last toggleSortBy found it
    request,            \* arguments of the last toggleSortBy call
    rows,               \* instance.rows: the top-level array of row objects
    values,             \* row.values, by row object
    subRows,            \* row.subRows, by row object (<<>>: none)
    sortInverted,       \* column.sortInverted, by column id
    manualSorting,      \* instance.manualSorting
    sortedRows,         \* the value of the sortedRows memo
    subRowsBefore,      \* row.subRows as the last run of the memo found them
    funcs,              \* per criterion, the column and the third argument
                        \* its sort function passes to sortMethod
    dirs,               \* the directions last handed to orderByFn
    composed,           \* calls of orderByFn made by the last run of the memo
    sortType,           \* column.sortType, by column id
    userSortTypes,      \* the names instance.sortTypes has an entry for
    sortMethods,        \* per criterion, the sortMethod the last run chose
    columns,            \* per column: accessor, disableSorting, and what
                        \* useMain sets on it: canSort, toggleSortBy
    disableSorting,     \* instance.disableSorting
    fault               \* the exception a lookup has thrown ("none": none)

toggleVars == <<sortDescFirst, disableMultiSort, disableSortRemove,
                disableMultiRemove, old, request>>

rowVars == <<rows, values, subRows, sortInverted, manualSorting, sortedRows,
             subRowsBefore, funcs, dirs, composed>>

typeVars == <<sortType, userSortTypes, sortMethods>>

columnVars == <<columns, disableSorting>>

vars == <<sortBy, toggleVars, rowVars, typeVars, columnVars, fault>>

\* Array.prototype.findIndex(d => d.id === columnID), 0-based, -1 when absent
RECURSIVE findIndexFrom(_, _, _)
findIndexFrom(arr, columnID, i) ==
    IF i > Len(arr) THEN -1
    ELSE IF arr[i].id = columnID THEN i - 1
    ELSE findIndexFrom(arr, columnID, i + 1)

findIndex(arr, columnID) == findIndexFrom(arr, columnID, 1)

\* typeof desc !== 'undefined' && desc !== null
hasDescDefined(desc) == desc # "undefined" /\ desc # "null"

\* baseAction, were multi mode to add without looking for an existing criterion
baseActionAlwaysAdd(sb, columnID, multi) ==
    LET existingIndex == findIndex(sb, columnID)
        existingSortBy == existingIndex # -1
    IN  IF ~disableMultiSort /\ multi
        THEN "add"
        ELSE IF existingIndex # Len(sb) - 1 THEN "replace"
             ELSE IF existingSortBy THEN "toggle"
             ELSE "replace"

\* baseAction, were normal mode to toggle any existing criterion, last or not
baseActionToggleAny(sb, columnID, multi) ==
    LET existingIndex == findIndex(sb, columnID)
        existingSortBy == existingIndex # -1
    IN  IF ~disableMultiSort /\ multi
        THEN IF existingSortBy THEN "toggle" ELSE "add"
        ELSE IF existingSortBy THEN "toggle" ELSE "replace"

\* "What should we do with this sort action?": the action before the
\* removal test
baseAction(sb, columnID, multi) ==
    LET existingIndex == findIndex(sb, columnID)
        existingSortBy == existingIndex # -1
    IN  IF ~disableMultiSort /\ multi
        THEN IF existingSortBy THEN "toggle" ELSE "add"
        ELSE IF existingIndex # Len(sb) - 1 THEN "replace"
             ELSE IF existingSortBy THEN "toggle"
             ELSE "replace"

\* resolveAction, were the removal test left out
resolveActionNoRemove(sb, columnID, desc, multi) ==
    baseAction(sb, columnID, multi)

\* resolveAction, were the removal test to forget disableSortRemove
resolveActionIgnoreDisable(sb, columnID, desc, multi) ==
    LET action == baseAction(sb, columnID, multi)
        existingIndex == findIndex(sb, columnID)
        existingSortBy == existingIndex # -1
        existingDesc == sb[existingIndex + 1].desc
        sdf == sortDescFirst[columnID]
    IN  IF /\ action = "toggle"
           /\ ~hasDescDefined(desc)
           /\ (IF multi THEN ~disableMultiRemove ELSE TRUE)
           /\ \/ (existingSortBy /\ Truthy(existingDesc) /\ ~Truthy(sdf))
              \/ (~Truthy(existingDesc) /\ Truthy(sdf))
        THEN "remove"
        ELSE action

\* resolveAction, were the removal test to forget whether desc was given
resolveActionIgnoreDesc(sb, columnID, desc, multi) ==
    LET action == baseAction(sb, columnID, multi)
        existingIndex == findIndex(sb, columnID)
        existingSortBy == existingIndex # -1
        existingDesc == sb[existingIndex + 1].desc
        sdf == sortDescFirst[columnID]
    IN  IF /\ action = "toggle"
           /\ ~disableSortRemove
           /\ (IF multi THEN ~disableMultiRemove ELSE TRUE)
           /\ \/ (existingSortBy /\ Truthy(existingDesc) /\ ~Truthy(sdf))
              \/ (~Truthy(existingDesc) /\ Truthy(sdf))
        THEN "remove"
        ELSE action

\* resolveAction, were the removal test to forget disableMultiRemove
resolveActionIgnoreMultiRemove(sb, columnID, desc, multi) ==
    LET action == baseAction(sb, columnID, multi)
        existingIndex == findIndex(sb, columnID)
        existingSortBy == existingIndex # -1
        existingDesc == sb[existingIndex + 1].desc
        sdf == sortDescFirst[columnID]
    IN  IF /\ action = "toggle"
           /\ ~disableSortRemove
           /\ ~hasDescDefined(desc)
           /\ \/ (existingSortBy /\ Truthy(existingDesc) /\ ~Truthy(sdf))
              \/ (~Truthy(existingDesc) /\ Truthy(sdf))
        THEN "remove"
        ELSE action

\* "Handle toggle states that will remove the sortBy"
resolveAction(sb, columnID, desc, multi) ==
    LET action == baseAction(sb, columnID, multi)
        existingIndex == findIndex(sb, columnID)
        existingSortBy == existingIndex # -1
        existingDesc == sb[existingIndex + 1].desc
        sdf == sortDescFirst[columnID]
    IN  IF /\ action = "toggle"
           /\ ~disableSortRemove
           /\ ~hasDescDefined(desc)
           /\ (IF multi THEN ~disableMultiRemove ELSE TRUE)
           /\ \/ (existingSortBy /\ Truthy(existingDesc) /\ ~Truthy(sdf))
              \/ (~Truthy(existingDesc) /\ Truthy(sdf))
        THEN "remove"
        ELSE action

\* sortBy.map(d => d.id === columnID ? {...d, desc} : d)
mapDesc(sb, columnID, newDesc) ==
    [i \in 1..Len(sb) |->
        IF sb[i].id = columnID THEN [sb[i] EXCEPT !.desc = newDesc] ELSE sb[i]]

\* sortBy.filter(d => d.id !== columnID)
RECURSIVE filterOut(_, _)
filterOut(sb, columnID) ==
    IF sb = <<>> THEN <<>>
    ELSE IF Head(sb).id = columnID THEN filterOut(Tail(sb), columnID)
    ELSE <<Head(sb)>> \o filterOut(Tail(sb), columnID)

\* replaceCriterion, were the existing criteria kept
replaceCriterionKeeps(sb, fresh) == Append(sb, fresh)

\* action === 'replace': the list becomes the one fresh criterion
replaceCriterion(sb, fresh) == <<fresh>>

\* addCriterion, were the fresh criterion put in front
addCriterionFirst(sb, fresh) == <<fresh>> \o sb

\* action === 'add': the fresh criterion goes after the existing ones
addCriterion(sb, fresh) == Append(sb, fresh)

\* action === 'toggle': "This flips (or sets) the" desc of the column
toggleCriterion(sb, columnID, desc) ==
    LET existingIndex == findIndex(sb, columnID)
    IN  mapDesc(sb, columnID,
                IF hasDescDefined(desc) THEN desc
                ELSE Not(sb[existingIndex + 1].desc))

\* removeCriterion, were the whole list dropped
removeCriterionAll(sb, columnID) == <<>>

\* action === 'remove'
removeCriterion(sb, columnID) == filterOut(sb, columnID)

\* { id: columnID, desc: hasDescDefined ? desc : sortDescFirst }
freshCriterion(columnID, desc) ==
    [id |-> columnID,
     desc |-> IF hasDescDefined(desc) THEN desc ELSE sortDescFirst[columnID]]

\* The updater toggleSortBy hands to setState: the new state.sortBy
newSortBy(sb, columnID, desc, multi) ==
    LET action == resolveAction(sb, columnID, desc, multi)
        fresh == freshCriterion(columnID, desc)
    IN  CASE action = "replace" -> replaceCriterion(sb, fresh)
          [] action = "add" -> addCriterion(sb, fresh)
          [] action = "toggle" -> toggleCriterion(sb, columnID, desc)
          [] action = "remove" -> removeCriterion(sb, columnID)

\* Row ordering ------------------------------------------------------------

\* a sort type of ../sortTypes: negative, zero or positive for a before,
\* equal to, after b
sortMethod(a, b, desc) == IF a < b THEN -1 ELSE IF a > b THEN 1 ELSE 0

\* sortFns, were the sort function to pass the direction sortInverted gives
sortFnsInverted(sb) ==
    [i \in 1..Len(sb) |->
        [id |-> sb[i].id,
         desc |-> IF Truthy(sortInverted[sb[i].id]) THEN Not(sb[i].desc)
                  ELSE sb[i].desc]]

\* sortFns, were the sort functions made last criterion first
sortFnsReversed(sb) ==
    [i \in 1..Len(sb) |->
        [id |-> sb[Len(sb) + 1 - i].id, desc |-> sb[Len(sb) + 1 - i].desc]]

\* sortBy.map(sort => (a, b) =>
\*     sortMethod(a.values[sort.id], b.values[sort.id], sort.desc))
sortFns(sb) == [i \in 1..Len(sb) |-> [id |-> sb[i].id, desc |-> sb[i].desc]]

\* the call of one of those sort functions on two rows
sortFn(f, a, b) == sortMethod(values[a][f.id], values[b][f.id], f.desc)

\* sortDirs, were sortInverted not looked at
sortDirsNoInvert(sb) == [i \in 1..Len(sb) |-> Not(sb[i].desc)]

\* "Map the directions": sortInverted ? sort.desc : !sort.desc
sortDirs(sb) ==
    [i \in 1..Len(sb) |->
        IF Truthy(sortInverted[sb[i].id]) THEN sb[i].desc ELSE Not(sb[i].desc)]

\* orderByFn's comparison of two rows: the first sort function that tells
\* them apart decides, negated when its direction is not ascending
RECURSIVE compareFrom(_, _, _, _, _)
compareFrom(a, b, fs, ds, i) ==
    IF i > Len(fs) THEN 0
    ELSE LET sortInt == sortFn(fs[i], a, b)
         IN  IF sortInt # 0
             THEN IF Truthy(ds[i]) THEN sortInt ELSE -sortInt
             ELSE compareFrom(a, b, fs, ds, i + 1)

compareRows(a, b, fs, ds) == compareFrom(a, b, fs, ds, 1)

\* stable insertion of row x into an ordered array: after every row that
\* does not come after it
RECURSIVE insertRow(_, _, _, _)
insertRow(arr, x, fs, ds) ==
    IF arr = <<>> THEN <<x>>
    ELSE IF compareRows(Head(arr), x, fs, ds) > 0 THEN <<x>> \o arr
    ELSE <<Head(arr)>> \o insertRow(Tail(arr), x, fs, ds)

RECURSIVE orderFrom(_, _, _, _, _)
orderFrom(arr, i, acc, fs, ds) ==
    IF i > Len(arr) THEN acc
    ELSE orderFrom(arr, i + 1, insertRow(acc, arr[i], fs, ds), fs, ds)

\* orderByFn(arr, funcs, dirs): a new array, arr in the composed order, rows
\* that no sort function tells apart in their order in arr
orderByFn(arr, fs, ds) == orderFrom(arr, 1, <<>>, fs, ds)

\* the array back to front
reverse(arr) == [i \in 1..Len(arr) |-> arr[Len(arr) + 1 - i]]

\* sortLevel, were a descending first criterion ordered ascending and the
\* result reversed
sortLevelReverseDesc(rws, sb) ==
    IF Truthy(sortDirs(sb)[1])
    THEN orderByFn(rws, sortFns(sb), sortDirs(sb))
    ELSE reverse(orderByFn(rws, sortFns(sb),
                           [i \in 1..Len(sb) |-> Not(sortDirs(sb)[i])]))

\* one level of sortData: orderByFn(rows, sortBy.map(...), sortBy.map(...))
sortLevel(rws, sb) == orderByFn(rws, sortFns(sb), sortDirs(sb))

\* row.subRows = <the ordered sub-rows>, with the sub-rows' own assignments
assignSubRows(acc, row, r) ==
    [subRows |-> [r.subRows EXCEPT ![row] = r.sortedData],
     calls |-> acc.calls + r.calls]

\* sortData(rows): the ordered array, row.subRows of every row object once
\* the sub-rows are ordered, and the calls of orderByFn made
RECURSIVE sortData(_, _, _)
RECURSIVE sortSubRows(_, _, _, _)
sortData(rws, sub, sb) ==
    sortSubRows(sortLevel(rws, sb), 1, [subRows |-> sub, calls |-> 1], sb)

\* sortSubRows, were the sub-rows left as they are
sortSubRowsNone(sortedData, i, acc, sb) ==
    [sortedData |-> sortedData, subRows |-> acc.subRows, calls |-> acc.calls]

\* sortedData.forEach(row => { if (!row.subRows) return
\*                              row.subRows = sortData(row.subRows) })
\* return sortedData
sortSubRows(sortedData, i, acc, sb) ==
    IF i > Len(sortedData)
    THEN [sortedData |-> sortedData,
          subRows |-> acc.subRows,
          calls |-> acc.calls]
    ELSE IF acc.subRows[sortedData[i]] = <<>>
    THEN sortSubRows(sortedData, i + 1, acc, sb)
    ELSE sortSubRows(sortedData, i + 1,
            assignSubRows(acc, sortedData[i],
                sortData(acc.subRows[sortedData[i]], acc.subRows, sb)),
            sb)

\* shortCut, were manualSorting not looked at
shortCutEmptyOnly(sb) == Len(sb) = 0

\* the short cut of the sortedRows memo
shortCut(sb) == manualSorting \/ Len(sb) = 0

\* children of a row object in a forest given by the parent of each row
RECURSIVE childrenFrom(_, _, _)
childrenFrom(parent, r, i) ==
    IF i > MaxRows THEN <<>>
    ELSE IF parent[i] = r THEN <<i>> \o childrenFrom(parent, r, i + 1)
    ELSE childrenFrom(parent, r, i + 1)

\* row a is row b or one of the rows above it (0 is above the top level)
RECURSIVE isAbove(_, _, _)
isAbove(parent, a, b) ==
    IF a = b THEN TRUE
    ELSE IF b = 0 THEN FALSE
    ELSE isAbove(parent, a, parent[b])

\* the forests of MaxRows row objects, the objects numbered in the order a
\* depth-first walk meets them: row i is a sub-row of row i - 1 or comes
\* next after the sub-rows of a row above row i - 1
Forests ==
    {p \in [RowIds -> 0..MaxRows] :
        /\ p[1] = 0
        /\ \A i \in RowIds \ {1} : p[i] < i /\ isAbove(p, p[i], i - 1)}

\* the criteria lists the reducer produces for boolean sortDescFirst: one
\* criterion per column at most
RECURSIVE CriteriaOver(_)
CriteriaOver(cols) ==
    {<<>>} \cup
    UNION {{<<[id |-> c, desc |-> d]>> \o rest :
                rest \in CriteriaOver(cols \ {c})} :
           <<c, d>> \in cols \X JSBool}

CriteriaLists == CriteriaOver(SortCols)

\* Column lookup -----------------------------------------------------------

\* a column id that no column definition has
UnknownId == NumCols + 1

\* columns.find(d => d.id === columnID) finds a column
columnFound(columnID) == columnID \in ColumnIds

\* updater, were a column that is not found skipped: no action is chosen
\* and the initial newSortBy = [] is returned
updaterSkipsUnknown(sb, columnID, desc, multi) ==
    IF ~columnFound(columnID)
    THEN [threw |-> FALSE, sortBy |-> <<>>]
    ELSE [threw |-> FALSE, sortBy |-> newSortBy(sb, columnID, desc, multi)]

\* the function toggleSortBy hands to setState, run on state.sortBy:
\* `const { sortDescFirst } = column` throws when no column was found
updater(sb, columnID, desc, multi) ==
    IF ~columnFound(columnID)
    THEN [threw |-> TRUE, sortBy |-> sb]
    ELSE [threw |-> FALSE, sortBy |-> newSortBy(sb, columnID, desc, multi)]

\* every criterion's column is found by the lookups of sortData
criteriaFound(sb) == \A i \in 1..Len(sb) : columnFound(sb[i].id)

\* Sort types --------------------------------------------------------------

\* the names ../sortTypes has an entry for
BuiltInSortTypes == {"alphanumeric", "datetime"}

\* the names a table's own sortTypes can have an entry for
UserSortTypeNames == {"alphanumeric", "datetime", "custom"}

\* a name every plain object inherits from Object.prototype, which the
\* lookup registry[name] of a plain object therefore finds
ObjectPrototype == {"toString"}

\* values of column.sortType: a function, a name, or not set
SortTypeValues ==
    {"function", "alphanumeric", "datetime", "custom", "missing", "toString",
     "undefined"}

\* isFunction of ../utils: its argument when that is a function
isFunction(a) == IF a = "function" THEN a ELSE "undefined"

\* what a lookup yields for a name the object has nothing under
NoSortMethod == [from |-> "nowhere", name |-> "undefined"]

\* (userSortTypes || {})[sortType]: the table's own entry, or what the
\* plain object inherits under that name
userSortType(st) ==
    IF st \in userSortTypes THEN [from |-> "user", name |-> st]
    ELSE IF st \in ObjectPrototype THEN [from |-> "Object.prototype", name |-> st]
    ELSE NoSortMethod

\* isFunction(sortType) || (userSortTypes || {})[sortType] ||
\* sortTypes[sortType] || sortTypes.alphanumeric
resolveSortMethod(st) ==
    IF isFunction(st) # "undefined" THEN [from |-> "column", name |-> st]
    ELSE IF userSortType(st) # NoSortMethod THEN userSortType(st)
    ELSE IF st \in BuiltInSortTypes THEN [from |-> "builtin", name |-> st]
    ELSE [from |-> "builtin", name |-> "alphanumeric"]

\* the sortMethod of each criterion's sort function
resolveSortMethods(sb) ==
    [i \in 1..Len(sb) |-> resolveSortMethod(sortType[sb[i].id])]

\* Sortable columns --------------------------------------------------------

\* getFirstDefined of ../utils: the first argument that is not undefined
getFirstDefined(a, b, c) ==
    IF a # "undefined" THEN a ELSE IF b # "undefined" THEN b ELSE c

\* canSort, were a column's disableSorting: false to win over the table's
canSortColumnWins(column) ==
    IF column.accessor
    THEN getFirstDefined(
            IF column.disableSorting = "true" THEN "false"
            ELSE IF column.disableSorting = "false" THEN "true"
            ELSE "undefined",
            IF disableSorting = "true" THEN "false" ELSE "undefined",
            "true")
    ELSE "false"

\* const canSort = accessor ? getFirstDefined(...) : false
canSort(column) ==
    IF column.accessor
    THEN getFirstDefined(
            IF column.disableSorting = "true" THEN "false" ELSE "undefined",
            IF disableSorting = "true" THEN "false" ELSE "undefined",
            "true")
    ELSE "false"

\* column.canSort = canSort
\* if (column.canSort) column.toggleSortBy = ...
decorate(column) ==
    [column EXCEPT !.canSort = canSort(column),
                   !.toggleSortBy = IF canSort(column) = "true" THEN TRUE ELSE @]

\* Initial values ----------------------------------------------------------

NoRequest == [columnID |-> 0, desc |-> "undefined", multi |-> FALSE]

\* a table with no rows, as its first render (state.sortBy = []) leaves it
EmptyTable ==
    /\ rows = <<>>
    /\ values = [r \in RowIds |-> [c \in SortCols |-> 0]]
    /\ subRows = [r \in RowIds |-> <<>>]
    /\ sortInverted = [c \in ColumnIds |-> "false"]
    /\ sortedRows = <<>>
    /\ subRowsBefore = [r \in RowIds |-> <<>>]
    /\ funcs = <<>>
    /\ dirs = <<>>
    /\ composed = 0

\* no column sets sortType and the table has no sortTypes of its own
DefaultSortTypes ==
    /\ sortType = [c \in ColumnIds |-> "undefined"]
    /\ userSortTypes = {}
    /\ sortMethods = <<>>

\* every column has an accessor, nothing disables sorting, and useMain has
\* set canSort and toggleSortBy on the columns
SortableColumns ==
    /\ columns = [c \in ColumnIds |->
                    [accessor |-> TRUE, disableSorting |-> "undefined",
                     canSort |-> "true", toggleSortBy |-> TRUE]]
    /\ disableSorting = "undefined"

\* no toggleSortBy call yet, on columns with sortDescFirst: false
NoToggles ==
    /\ sortDescFirst = [c \in ColumnIds |-> "false"]
    /\ disableMultiSort = FALSE
    /\ disableSortRemove = FALSE
    /\ disableMultiRemove = FALSE
    /\ old = <<>>
    /\ request = NoRequest

\* The sortedRows memo -----------------------------------------------------

\* the function handed to React.useMemo, run for state.sortBy = sb; the
\* lookups of sortData throw before any row is touched
runMemo(sb) ==
    IF shortCut(sb)
    THEN /\ sortedRows' = rows
         /\ subRows' = subRows
         /\ funcs' = <<>>
         /\ dirs' = <<>>
         /\ sortMethods' = <<>>
         /\ composed' = 0
         /\ fault' = fault
    ELSE IF ~criteriaFound(sb)
    THEN /\ fault' = "TypeError"
         /\ UNCHANGED <<sortedRows, subRows, funcs, dirs, sortMethods, composed>>
    ELSE \E r \in {sortData(rows, subRows, sb)} :
            /\ sortedRows' = r.sortedData
            /\ subRows' = r.subRows
            /\ funcs' = sortFns(sb)
            /\ dirs' = sortDirs(sb)
            /\ sortMethods' = resolveSortMethods(sb)
            /\ composed' = r.calls
            /\ fault' = fault

\* The reducer is explored on a table that has no rows and sorts manually:
\* its memo returns rows as they are.
ToggleInit ==
    /\ sortBy = <<>>
    /\ sortDescFirst \in [ColumnIds -> MaybeBool]
    /\ disableMultiSort \in BOOLEAN
    /\ disableSortRemove \in BOOLEAN
    /\ disableMultiRemove \in BOOLEAN
    /\ old = <<>>
    /\ request = NoRequest
    /\ EmptyTable
    /\ manualSorting = TRUE
    /\ DefaultSortTypes
    /\ SortableColumns
    /\ fault = "none"

\* toggleSortBy(columnID, desc, multi): setState runs the updater, and the
\* render that follows runs the sortedRows memo for the new state.sortBy
toggleSortBy(columnID, desc, multi) ==
    /\ fault = "none"
    /\ old' = sortBy
    /\ request' = [columnID |-> columnID, desc |-> desc, multi |-> multi]
    /\ \E u \in {updater(sortBy, columnID, desc, multi)} :
        IF u.threw
        THEN /\ fault' = "TypeError"
             /\ sortBy' = sortBy
             /\ UNCHANGED <<sortedRows, subRows, subRowsBefore, funcs, dirs,
                            sortMethods, composed>>
        ELSE /\ sortBy' = u.sortBy
             /\ subRowsBefore' = subRows
             /\ runMemo(u.sortBy)
    /\ UNCHANGED <<sortDescFirst, disableMultiSort, disableSortRemove,
                   disableMultiRemove>>
    /\ UNCHANGED <<rows, values, sortInverted, manualSorting>>
    /\ UNCHANGED <<sortType, userSortTypes, columnVars>>

ToggleNext ==
    \E columnID \in ColumnIds, desc \in DescArgs, multi \in BOOLEAN :
        toggleSortBy(columnID, desc, multi)

Spec == ToggleInit /\ [][ToggleNext]_vars

\* The ordering is explored on every forest of MaxRows rows, from the first
\* render (state.sortBy is defaultState.sortBy = []).
RowsInit ==
    /\ sortBy = <<>>
    /\ NoToggles
    /\ \E parent \in Forests :
        /\ rows = childrenFrom(parent, 0, 1)
        /\ subRows = [r \in RowIds |-> childrenFrom(parent, r, 1)]
    /\ values \in [RowIds -> [SortCols -> CellValues]]
    /\ \E inverted \in InvertedColumns :
        sortInverted =
            [c \in ColumnIds |-> IF c \in inverted THEN "true" ELSE "false"]
    /\ manualSorting \in BOOLEAN
    /\ sortedRows = rows
    /\ subRowsBefore = subRows
    /\ funcs = <<>>
    /\ dirs = <<>>
    /\ composed = 0
    /\ DefaultSortTypes
    /\ SortableColumns
    /\ fault = "none"

\* A render after state.sortBy changed to sb: the sortedRows memo runs anew.
useMain(sb) ==
    /\ fault = "none"
    /\ sb # sortBy
    /\ sortBy' = sb
    /\ subRowsBefore' = subRows
    /\ runMemo(sb)
    /\ UNCHANGED <<rows, values, sortInverted, manualSorting>>
    /\ UNCHANGED toggleVars
    /\ UNCHANGED <<sortType, userSortTypes, columnVars>>

RowsNext == \E sb \in CriteriaLists : useMain(sb)

RowsSpec == RowsInit /\ [][RowsNext]_vars

\* The column lookups are explored on a table with no rows, with toggles of
\* a column id no column has and with a state.sortBy that names one.
UnknownCriteria ==
    {<<[id |-> UnknownId, desc |-> d]>> : d \in JSBool} \cup
    {<<[id |-> c, desc |-> "false"], [id |-> UnknownId, desc |-> "false"]>> :
        c \in ColumnIds}

LookupInit ==
    /\ sortBy = <<>>
    /\ sortDescFirst = [c \in ColumnIds |-> "undefined"]
    /\ disableMultiSort \in BOOLEAN
    /\ disableSortRemove \in BOOLEAN
    /\ disableMultiRemove \in BOOLEAN
    /\ old = <<>>
    /\ request = NoRequest
    /\ EmptyTable
    /\ manualSorting = FALSE
    /\ DefaultSortTypes
    /\ SortableColumns
    /\ fault = "none"

LookupNext ==
    \/ \E columnID \in ColumnIds \cup {UnknownId}, desc \in DescArgs,
          multi \in BOOLEAN :
            toggleSortBy(columnID, desc, multi)
    \/ \E sb \in UnknownCriteria : useMain(sb)

LookupSpec == LookupInit /\ [][LookupNext]_vars

\* The choice of sortMethod is explored over every sortType of the columns
\* and every set of names in the table's own sortTypes.
TypesInit ==
    /\ sortBy = <<>>
    /\ NoToggles
    /\ EmptyTable
    /\ manualSorting = FALSE
    /\ sortType \in [ColumnIds -> SortTypeValues]
    /\ userSortTypes \in SUBSET UserSortTypeNames
    /\ sortMethods = <<>>
    /\ SortableColumns
    /\ fault = "none"

TypesNext == \E sb \in CriteriaLists : useMain(sb)

TypesSpec == TypesInit /\ [][TypesNext]_vars

\* canSort is explored over every setting of accessor and disableSorting,
\* from the columns as useMain first receives them.
ColumnsInit ==
    /\ sortBy = <<>>
    /\ NoToggles
    /\ EmptyTable
    /\ manualSorting = FALSE
    /\ DefaultSortTypes
    /\ columns \in [ColumnIds ->
                     [accessor : BOOLEAN, disableSorting : MaybeBool,
                      canSort : {"undefined"}, toggleSortBy : {FALSE}]]
    /\ disableSorting \in MaybeBool
    /\ fault = "none"

\* [...instance.columns, ...instance.headers].forEach(column => ...)
decorateColumns ==
    /\ columns' = [c \in ColumnIds |-> decorate(columns[c])]
    /\ UNCHANGED <<sortBy, toggleVars, rowVars, typeVars, disableSorting, fault>>

ColumnsNext == decorateColumns

ColumnsSpec == ColumnsInit /\ [][ColumnsNext]_vars

\* ------------------------------------------------------------------------
\* Properties of the sortBy reducer (specification Spec)

\* the last call was toggleSortBy(c, <no desc>, multi = false)
PlainToggleOf(c) ==
    /\ request.columnID = c
    /\ ~hasDescDefined(request.desc)
    /\ request.multi = FALSE

\* the last call ran in normal (single-sort) mode
SingleMode == disableMultiSort \/ ~request.multi

\* the criterion a call makes for a column that gets a fresh one
Requested ==
    [id |-> request.columnID,
     desc |-> IF request.desc \in JSBool THEN request.desc
              ELSE sortDescFirst[request.columnID]]

\* C1: starting from the empty list, whatever the toggle requests and the
\* settings of the three disable flags, no two criteria of state.sortBy
\* have the same column id.
C1_UniqueColumnIds ==
    \A i, j \in 1..Len(sortBy) : i # j => sortBy[i].id # sortBy[j].id

\* a multi toggle of a second column has produced a list of two criteria
C1_Witness ==
    /\ Len(sortBy) >= 2
    /\ Len(old) = Len(sortBy) - 1
    /\ request.columnID \in ColumnIds
    /\ request.multi

\* C2: removal enabled, column with sortDescFirst = s in {false, true}:
\* plain non-multi toggles take [] to [{id, desc: s}], that to
\* [{id, desc: !s}], and that to [].
C2_ThreeStateCycle ==
    \A c \in ColumnIds :
        (/\ ~disableSortRemove
         /\ sortDescFirst[c] \in JSBool
         /\ PlainToggleOf(c))
        => LET s == sortDescFirst[c] IN
           /\ old = <<>> => sortBy = <<[id |-> c, desc |-> s]>>
           /\ old = <<[id |-> c, desc |-> s]>>
                => sortBy = <<[id |-> c, desc |-> Not(s)]>>
           /\ old = <<[id |-> c, desc |-> Not(s)]>> => sortBy = <<>>

\* the third click of the cycle has just emptied the list (sortDescFirst false)
C2_Witness ==
    \E c \in ColumnIds :
        /\ ~disableSortRemove
        /\ sortDescFirst[c] = "false"
        /\ PlainToggleOf(c)
        /\ old = <<[id |-> c, desc |-> "true"]>>
        /\ sortBy = <<>>

\* C3: disableSortRemove set, column with sortDescFirst = false: from
\* [{id, desc: false}] on, every plain non-multi toggle of the column flips
\* desc and the list is never empty.
C3_FlipWithoutRemove ==
    \A c \in ColumnIds : \A d \in JSBool :
        (/\ disableSortRemove
         /\ sortDescFirst[c] = "false"
         /\ PlainToggleOf(c)
         /\ old = <<[id |-> c, desc |-> d]>>)
        => /\ sortBy = <<[id |-> c, desc |-> Not(d)]>>
           /\ sortBy # <<>>

\* with removal disabled the click after desc: true went back to desc: false
C3_Witness ==
    \E c \in ColumnIds :
        /\ disableSortRemove
        /\ sortDescFirst[c] = "false"
        /\ PlainToggleOf(c)
        /\ old = <<[id |-> c, desc |-> "true"]>>
        /\ sortBy = <<[id |-> c, desc |-> "false"]>>

\* C4: multi-sort enabled: a multi toggle of a column that is not in the
\* list appends its criterion and keeps every existing criterion at its
\* position; so from [] toggling A then B (multi) gives [A, B].
C4_MultiAppends ==
    (/\ request.columnID \in ColumnIds
     /\ ~disableMultiSort
     /\ request.multi
     /\ findIndex(old, request.columnID) = -1)
    => /\ Len(sortBy) = Len(old) + 1
       /\ \A i \in 1..Len(old) : sortBy[i] = old[i]
       /\ sortBy[Len(sortBy)] = Requested
       /\ Len(old) = 1 =>
            (sortBy[1].id = old[1].id /\ sortBy[2].id = request.columnID)

\* B was toggled with multi after A alone: the list is [A, B]
C4_Witness ==
    /\ ~disableMultiSort
    /\ request.multi
    /\ Len(old) = 1
    /\ old[1].id # request.columnID
    /\ Len(sortBy) = 2
    /\ sortBy[1].id = old[1].id
    /\ sortBy[2].id = request.columnID

Ordered == ~manualSorting /\ sortBy # <<>>

\* every sibling array of the forest as the last run found it, paired with
\* what the run left in its place
SiblingLists ==
    {<<rows, sortedRows>>} \cup {<<subRowsBefore[r], subRows[r]>> : r \in RowIds}

indexOf(arr, x) == CHOOSE i \in 1..Len(arr) : arr[i] = x

elements(arr) == {arr[i] : i \in 1..Len(arr)}

\* no active criterion's comparator tells rows a and b apart
TiedUnderAll(a, b) ==
    \A i \in 1..Len(sortBy) :
        sortMethod(values[a][sortBy[i].id], values[b][sortBy[i].id],
                   sortBy[i].desc) = 0

C7_InputNotMutated ==
    Ordered => \A r \in RowIds : subRows[r] = subRowsBefore[r]

\* C8: with manualSorting, or with no criteria, the memo returns rows
\* itself: no sort function is made, orderByFn is not called and no
\* row's subRows is assigned.
C8_ShortCutReturnsRows ==
    (manualSorting \/ sortBy = <<>>) =>
        /\ sortedRows = rows
        /\ subRows = subRowsBefore
        /\ composed = 0
        /\ funcs = <<>>
        /\ dirs = <<>>

\* manual sorting with criteria that would have reordered the rows
C8_Witness ==
    /\ manualSorting
    /\ sortBy # <<>>
    /\ sortLevel(rows, sortBy) # rows
    /\ sortedRows = rows

\* C9: sibling rows that compare equal under every active criterion keep
\* their relative order, at every depth and also when the first criterion
\* is descending.
C9_Stable ==
    Ordered =>
        \A l \in SiblingLists : \A a, b \in elements(l[1]) :
            (indexOf(l[1], a) < indexOf(l[1], b) /\ TiedUnderAll(a, b))
            => indexOf(l[2], a) < indexOf(l[2], b)

\* a descending first criterion reordered siblings, two of which are tied
C9_Witness ==
    /\ Ordered
    /\ ~Truthy(dirs[1])
    /\ \E l \in SiblingLists :
        /\ l[2] # l[1]
        /\ \E a, b \in elements(l[1]) :
            /\ indexOf(l[1], a) < indexOf(l[1], b)
            /\ TiedUnderAll(a, b)
            /\ indexOf(l[2], a) < indexOf(l[2], b)

\* C10: every sibling array of the result, at every depth, holds the rows
\* of the input sibling array in the order of the criteria: no row comes
\* before a sibling that the comparators, applied to the two rows' own
\* values, put first.
C10_EveryLevelOrdered ==
    Ordered =>
        \A l \in SiblingLists :
            /\ Len(l[2]) = Len(l[1])
            /\ elements(l[2]) = elements(l[1])
            /\ \A k \in 1..(Len(l[2]) - 1) :
                compareRows(l[2][k], l[2][k + 1], funcs, dirs) <= 0

\* the sub-rows of a row were reordered
C10_Witness ==
    /\ Ordered
    /\ \E r \in RowIds :
        /\ Len(subRows[r]) >= 2
        /\ subRows[r] # subRowsBefore[r]

\* what criterion i's comparator says of rows a and b, in the direction
\* handed to orderByFn for it
Directed(i, a, b) ==
    LET sortInt == sortMethod(values[a][sortBy[i].id], values[b][sortBy[i].id],
                              sortBy[i].desc)
    IN  IF Truthy(dirs[i]) THEN sortInt ELSE -sortInt

\* C11: the sort functions and the directions handed to orderByFn have one
\* entry per criterion, in the order of state.sortBy, and siblings are in
\* lexicographic order: of two siblings, the first criterion that tells
\* them apart (all criteria before it tie) puts the earlier one first.
C11_Lexicographic ==
    Ordered =>
        /\ Len(funcs) = Len(sortBy)
        /\ Len(dirs) = Len(sortBy)
        /\ \A i \in 1..Len(funcs) : funcs[i].id = sortBy[i].id
        /\ \A l \in SiblingLists : \A k, m \in 1..Len(l[2]) :
            k < m =>
                \A i \in 1..Len(sortBy) :
                    (\A j \in 1..(i - 1) : Directed(j, l[2][k], l[2][m]) = 0)
                    => Directed(i, l[2][k], l[2][m]) <= 0

\* with two criteria, two siblings tied under the first were swapped by the
\* second
C11_Witness ==
    /\ Ordered
    /\ Len(sortBy) = 2
    /\ \E l \in SiblingLists : \E a, b \in elements(l[1]) :
        /\ indexOf(l[1], b) < indexOf(l[1], a)
        /\ indexOf(l[2], a) < indexOf(l[2], b)
        /\ Directed(1, a, b) = 0
        /\ Directed(2, a, b) < 0

\* ------------------------------------------------------------------------
\* More properties of the sortBy reducer (specification Spec)

\* the column ids of a criteria list, in order
idsOf(arr) == [i \in 1..Len(arr) |-> arr[i].id]

\* the last call was for a column that had a criterion
WasSorted == findIndex(old, request.columnID) # -1

\* the last call was for a column whose criterion stood where the removal
\* test removes: desc set and sortDescFirst not, or the reverse
AtRemovalBoundary ==
    /\ WasSorted
    /\ LET d == old[findIndex(old, request.columnID) + 1].desc
           sdf == sortDescFirst[request.columnID]
       IN  (Truthy(d) /\ ~Truthy(sdf)) \/ (~Truthy(d) /\ Truthy(sdf))

\* C12: a toggle with an explicit desc (true or false) never removes: the
\* new list has a criterion for the column, with the desc supplied.
C12_ExplicitDescKept ==
    (request.columnID \in ColumnIds /\ request.desc \in JSBool)
    => \E i \in 1..Len(sortBy) :
        /\ sortBy[i].id = request.columnID
        /\ sortBy[i].desc = request.desc

\* an explicit desc on a criterion that a plain toggle would have removed
C12_Witness ==
    /\ request.desc \in JSBool
    /\ ~disableSortRemove
    /\ ~request.multi
    /\ Len(old) = 1
    /\ AtRemovalBoundary
    /\ sortBy = <<[id |-> request.columnID, desc |-> request.desc]>>

\* C13: multi-sort enabled, disableMultiRemove set: a multi toggle of a
\* column in the list keeps the length and the ids in order and changes
\* only that column's desc (flipped, or the explicit desc); and with
\* disableSortRemove set no toggle leaves the list without the column.
C13_RemoveDisabled ==
    /\ (/\ ~disableMultiSort
        /\ disableMultiRemove
        /\ request.multi
        /\ WasSorted)
       => /\ idsOf(sortBy) = idsOf(old)
          /\ \A i \in 1..Len(old) :
                sortBy[i].desc =
                    IF old[i].id # request.columnID THEN old[i].desc
                    ELSE IF request.desc \in JSBool THEN request.desc
                    ELSE Not(old[i].desc)
    /\ (disableSortRemove /\ request.columnID \in ColumnIds)
       => \E i \in 1..Len(sortBy) : sortBy[i].id = request.columnID

\* a plain multi toggle at the removal boundary flipped desc instead
C13_Witness ==
    /\ ~disableMultiSort
    /\ disableMultiRemove
    /\ ~disableSortRemove
    /\ request.multi
    /\ ~hasDescDefined(request.desc)
    /\ AtRemovalBoundary
    /\ Len(old) = 2
    /\ idsOf(sortBy) = idsOf(old)

\* the criteria of the other columns, in order
othersOf(arr, c) == SelectSeq(arr, LAMBDA d : d.id # c)

\* the last call resolved to toggle or remove: multi mode on a column in
\* the list, or normal mode on the column of the last criterion
ToggleOrRemove ==
    /\ WasSorted
    /\ \/ (~disableMultiSort /\ request.multi)
       \/ (SingleMode /\ old[Len(old)].id = request.columnID)

\* C14: toggle and remove leave the criteria of the other columns as they
\* were, in the same order; toggle keeps the length (and every position),
\* remove shortens the list by one.
C14_OthersUntouched ==
    ToggleOrRemove =>
        /\ othersOf(sortBy, request.columnID) = othersOf(old, request.columnID)
        /\ IF \E i \in 1..Len(sortBy) : sortBy[i].id = request.columnID
           THEN idsOf(sortBy) = idsOf(old)
           ELSE Len(sortBy) = Len(old) - 1

\* a multi toggle removed the first of two criteria and left the second
C14_Witness ==
    /\ ToggleOrRemove
    /\ request.multi
    /\ Len(old) = 2
    /\ old[1].id = request.columnID
    /\ sortBy = <<old[2]>>

\* C19: from [], while every toggle runs in normal mode (multi false, or
\* disableMultiSort set), the list holds one criterion at most.
C19_SingleModeOneCriterion ==
    /\ disableMultiSort => Len(sortBy) <= 1
    /\ (SingleMode /\ Len(old) <= 1) => Len(sortBy) <= 1

\* with disableMultiSort, a multi toggle of a second column replaced the first
C19_Witness ==
    /\ disableMultiSort
    /\ request.multi
    /\ Len(old) = 1
    /\ old[1].id # request.columnID
    /\ request.columnID \in ColumnIds
    /\ Len(sortBy) = 1

\* C20: with disableMultiSort set, a toggle gives the same list for
\* multi = true as for multi = false, whatever the list, the column, the
\* desc and the other two flags.
C20_MultiFlagIgnored ==
    disableMultiSort =>
        \A c \in ColumnIds : \A desc \in DescArgs :
            newSortBy(sortBy, c, desc, TRUE) = newSortBy(sortBy, c, desc, FALSE)

\* ------------------------------------------------------------------------
\* More properties of the row ordering (specification RowsSpec)

\* C17: the direction handed to orderByFn for a criterion is !desc for a
\* column that is not sortInverted and desc for one that is, and a set
\* direction means ascending: under it the first criterion's values do not
\* decrease along any sibling array, under an unset one they do not
\* increase.
C17_DirectionIsAscending ==
    Ordered =>
        /\ Len(dirs) = Len(sortBy)
        /\ \A i \in 1..Len(sortBy) :
            dirs[i] = IF sortInverted[sortBy[i].id] = "true"
                      THEN sortBy[i].desc
                      ELSE Not(sortBy[i].desc)
        /\ \A l \in SiblingLists : \A k \in 1..(Len(l[2]) - 1) :
            LET c == sortBy[1].id
                ascending ==
                    IF sortInverted[c] = "true" THEN sortBy[1].desc = "true"
                    ELSE sortBy[1].desc = "false"
            IN  IF ascending
                THEN values[l[2][k]][c] <= values[l[2][k + 1]][c]
                ELSE values[l[2][k]][c] >= values[l[2][k + 1]][c]

\* a sortInverted column with desc true put siblings in ascending order
C17_Witness ==
    /\ Ordered
    /\ sortInverted[sortBy[1].id] = "true"
    /\ sortBy[1].desc = "true"
    /\ dirs[1] = "true"
    /\ \E l \in SiblingLists :
        /\ l[2] # l[1]
        /\ \E k \in 1..(Len(l[2]) - 1) :
            values[l[2][k]][sortBy[1].id] < values[l[2][k + 1]][sortBy[1].id]

\* ------------------------------------------------------------------------
\* Properties of the choice of sortMethod
\* ------------------------------------------------------------------------

\* C15: the sortMethod of a criterion is the column's sortType when that is
\* a function; else the entry of that name in the table's own sortTypes when
\* there is one; else the built-in entry of that name when there is one;
\* else the built-in alphanumeric.  A sortType that is not set or that
\* neither registry knows resolves to alphanumeric.
C15_PriorityOrder ==
    (~manualSorting /\ sortBy # <<>> /\ fault = "none") =>
        /\ Len(sortMethods) = Len(sortBy)
        /\ \A i \in 1..Len(sortBy) :
            LET st == sortType[sortBy[i].id] IN
                sortMethods[i] =
                    IF st = "function" THEN [from |-> "column", name |-> st]
                    ELSE IF st \in userSortTypes
                    THEN [from |-> "user", name |-> st]
                    ELSE IF st \in BuiltInSortTypes
                    THEN [from |-> "builtin", name |-> st]
                    ELSE [from |-> "builtin", name |-> "alphanumeric"]

\* ------------------------------------------------------------------------
\* Properties of the column lookups
\* ------------------------------------------------------------------------

====
